---- MODULE Spec2Model ----
(***************************************************************************)
(* A model of libhydrosphere's unique_ptr<T>                               *)
(* (source/common/compiler/unique_ptr.cpp).                                *)
(*                                                                         *)
(* Handles are storage slots in which a unique_ptr can be constructed;     *)
(* the slot Param is the by-value parameter of operator=.  Objects are     *)
(* identified by their address; tally[a] counts how many times `delete`    *)
(* has run on address a.  Every member function is executed statement by   *)
(* statement by a single thread whose call stack is `stack`.               *)
(***************************************************************************)
EXTENDS Integers, Sequences, FiniteSets

\* ---- bounds ----
NumHandles == 2
NumAddrs == 2
MaxTally == 3

\* ---- values ----
nullptr == 0
Addrs == 1..NumAddrs
Ptrs == {nullptr} \cup Addrs
Param == 0
Slots == 1..NumHandles
Handles == {Param} \cup Slots

VARIABLES
    native_ptr_,  \* [Handles -> Ptrs], the field of each unique_ptr
    live,         \* [Handles -> BOOLEAN], constructed and not yet destructed
    tally,        \* [Addrs -> Nat], number of deletes of each object
    stack,        \* call stack of the running member functions, top first
    ret,          \* value returned by the last completed call
    hist,         \* the last two calls made by the user, newest first,
                  \* each with the state it was made in; the log starts
                  \* afresh when the user calls an observer
    obs,          \* the observer call that is returning, if any, with
                  \* its result and the state it was called in
    given         \* addresses the caller has handed to a handle and not
                  \* got back from release()

vars == <<native_ptr_, live, tally, stack, ret, hist, obs, given>>

Idle == stack = <<>>
Top == Head(stack)

Frame(fn, pc, this, other, ptr) ==
    [fn |-> fn, pc |-> pc, this |-> this, other |-> other, ptr |-> ptr,
     temp |-> nullptr]

Snap == [native_ptr_ |-> native_ptr_, live |-> live, tally |-> tally]

\* No observer is returning.
NoObs == [op |-> "none", l |-> Param, r |-> Param, val |-> FALSE,
          pre |-> [native_ptr_ |-> [h \in Handles |-> nullptr],
                   live |-> [h \in Handles |-> FALSE],
                   tally |-> [a \in Addrs |-> 0]],
          stack |-> <<>>]

\* The user calls `op`: the call is logged with the state it is made in,
\* in front of the call before it.
Record(op, this, other, ptr) ==
    LET e == [op |-> op, this |-> this, other |-> other, ptr |-> ptr,
              pre |-> Snap]
    IN  hist' = IF hist = <<>> THEN <<e>> ELSE <<e, hist[1]>>

\* A raw address the caller may hand to a handle: null, or an object that
\* is alive and owned by no live handle.
Held(p) == \E h \in Handles : live[h] /\ native_ptr_[h] = p
Fresh(p) == IF p = nullptr THEN TRUE ELSE ~Held(p) /\ tally[p] = 0

\* T *get() const { return native_ptr_; }
get(h) == native_ptr_[h]

\* `delete p`: no effect on a null pointer, else the object is destroyed.
Delete(t, p) == IF p = nullptr THEN t ELSE [t EXCEPT ![p] = @ + 1]

Init ==
    /\ native_ptr_ = [h \in Handles |-> nullptr]
    /\ live = [h \in Handles |-> FALSE]
    /\ tally = [a \in Addrs |-> 0]
    /\ stack = <<>>
    /\ ret = nullptr
    /\ hist = <<>>
    /\ obs = NoObs
    /\ given = {}

\* ---- unique_ptr() ----
DefaultCtor(h) ==
    /\ Idle /\ ~live[h]
    /\ native_ptr_' = [native_ptr_ EXCEPT ![h] = nullptr]
    /\ live' = [live EXCEPT ![h] = TRUE]
    /\ ret' = nullptr
    /\ UNCHANGED obs
    /\ Record("unique_ptr()", h, h, nullptr)
    /\ UNCHANGED <<tally, stack, given>>

\* ---- explicit unique_ptr(T *ptr) ----
\* Variant: the constructor ignores its argument, the handle starts empty.
RawCtorEmpty(h, p) ==
    /\ Idle /\ ~live[h] /\ Fresh(p)
    /\ native_ptr_' = [native_ptr_ EXCEPT ![h] = nullptr]
    /\ live' = [live EXCEPT ![h] = TRUE]
    /\ ret' = nullptr
    /\ UNCHANGED obs
    /\ Record("unique_ptr(T*)", h, h, p)
    /\ given' = given \cup ({p} \ {nullptr})
    /\ UNCHANGED <<tally, stack>>

RawCtor(h, p) ==
    /\ Idle /\ ~live[h] /\ Fresh(p)
    /\ native_ptr_' = [native_ptr_ EXCEPT ![h] = p]
    /\ live' = [live EXCEPT ![h] = TRUE]
    /\ ret' = nullptr
    /\ UNCHANGED obs
    /\ Record("unique_ptr(T*)", h, h, p)
    /\ given' = given \cup ({p} \ {nullptr})
    /\ UNCHANGED <<tally, stack>>

\* ---- unique_ptr(const unique_ptr &ptr) ----
CopyCtorFrames(b, a) == <<Frame("copy_ctor", "init", b, a, nullptr)>>

CopyCtorCall(b, a) ==
    /\ Idle /\ ~live[b] /\ live[a]
    /\ stack' = CopyCtorFrames(b, a)
    /\ ret' = nullptr
    /\ UNCHANGED obs
    /\ Record("copy_ctor", b, a, nullptr)
    /\ UNCHANGED <<native_ptr_, live, tally, given>>

\* Variant: the member initialiser is left out, the new handle starts empty.
CopyCtorInitEmpty ==
    /\ ~Idle /\ Top.fn = "copy_ctor" /\ Top.pc = "init"
    /\ native_ptr_' = [native_ptr_ EXCEPT ![Top.this] = nullptr]
    /\ stack' = <<[Top EXCEPT !.pc = "clear"]>> \o Tail(stack)
    /\ UNCHANGED <<live, tally, ret, hist, obs, given>>

\* native_ptr_(ptr.native_ptr_)
CopyCtorInit ==
    /\ ~Idle /\ Top.fn = "copy_ctor" /\ Top.pc = "init"
    /\ native_ptr_' = [native_ptr_ EXCEPT ![Top.this] = native_ptr_[Top.other]]
    /\ stack' = <<[Top EXCEPT !.pc = "clear"]>> \o Tail(stack)
    /\ UNCHANGED <<live, tally, ret, hist, obs, given>>

\* Variant: a copying constructor, the source keeps its address.
CopyCtorKeepsSource ==
    /\ ~Idle /\ Top.fn = "copy_ctor" /\ Top.pc = "clear"
    /\ live' = [live EXCEPT ![Top.this] = TRUE]
    /\ stack' = Tail(stack)
    /\ UNCHANGED <<native_ptr_, tally, ret, hist, obs, given>>

\* const_cast<unique_ptr &>(ptr).native_ptr_ = nullptr; the new handle's
\* construction is then complete.
CopyCtorClear ==
    /\ ~Idle /\ Top.fn = "copy_ctor" /\ Top.pc = "clear"
    /\ native_ptr_' = [native_ptr_ EXCEPT ![Top.other] = nullptr]
    /\ live' = [live EXCEPT ![Top.this] = TRUE]
    /\ stack' = Tail(stack)
    /\ UNCHANGED <<tally, ret, hist, obs, given>>

\* ---- destroy() ----
DestroyFrames(h) == <<Frame("destroy", "delete", h, h, nullptr)>>

\* Variant: destroy() does not delete, it only clears the field.
DestroyDeleteSkips ==
    /\ ~Idle /\ Top.fn = "destroy" /\ Top.pc = "delete"
    /\ stack' = <<[Top EXCEPT !.pc = "null"]>> \o Tail(stack)
    /\ UNCHANGED <<native_ptr_, live, tally, ret, hist, obs, given>>

\* Variant: destroy() takes the address out of the field before it deletes
\* the object.
DestroyDeleteClearsFirst ==
    /\ ~Idle /\ Top.fn = "destroy" /\ Top.pc = "delete"
    /\ native_ptr_' = [native_ptr_ EXCEPT ![Top.this] = nullptr]
    /\ stack' = <<[Top EXCEPT
                     !.ptr = native_ptr_[Top.this],
                     !.pc = IF native_ptr_[Top.this] = nullptr
                            THEN "null" ELSE "deleting"]>> \o Tail(stack)
    /\ UNCHANGED <<live, tally, ret, hist, obs, given>>

\* delete native_ptr_; a null operand has no effect, else the destructor of
\* the object is entered.
DestroyDelete ==
    /\ ~Idle /\ Top.fn = "destroy" /\ Top.pc = "delete"
    /\ stack' = <<[Top EXCEPT
                     !.ptr = native_ptr_[Top.this],
                     !.pc = IF native_ptr_[Top.this] = nullptr
                            THEN "null" ELSE "deleting"]>> \o Tail(stack)
    /\ UNCHANGED <<native_ptr_, live, tally, ret, hist, obs, given>>

\* The destructor of the object returns and its storage is freed: the
\* object is destroyed.
DestroyDeleted ==
    /\ ~Idle /\ Top.fn = "destroy" /\ Top.pc = "deleting"
    /\ \A a \in Addrs : tally[a] < MaxTally
    /\ tally' = Delete(tally, Top.ptr)
    /\ stack' = <<[Top EXCEPT !.pc = "null"]>> \o Tail(stack)
    /\ UNCHANGED <<native_ptr_, live, ret, hist, obs, given>>

\* Variant: destroy() forgets to clear the field.
DestroyKeepsPtr ==
    /\ ~Idle /\ Top.fn = "destroy" /\ Top.pc = "null"
    /\ stack' = Tail(stack)
    /\ UNCHANGED <<native_ptr_, live, tally, ret, hist, obs, given>>

\* native_ptr_ = nullptr;
DestroyNull ==
    /\ ~Idle /\ Top.fn = "destroy" /\ Top.pc = "null"
    /\ native_ptr_' = [native_ptr_ EXCEPT ![Top.this] = nullptr]
    /\ stack' = Tail(stack)
    /\ UNCHANGED <<live, tally, ret, hist, obs, given>>

\* ---- ~unique_ptr() { destroy(); } ----
\* Variant: a destructor that does not call destroy().
DtorFramesLeak(h) == <<Frame("dtor", "end", h, h, nullptr)>>

DtorFrames(h) == DestroyFrames(h) \o <<Frame("dtor", "end", h, h, nullptr)>>

DtorCall(h) ==
    /\ Idle /\ h \in Slots /\ live[h]
    /\ stack' = DtorFrames(h)
    /\ ret' = nullptr
    /\ UNCHANGED obs
    /\ Record("dtor", h, h, nullptr)
    /\ UNCHANGED <<native_ptr_, live, tally, given>>

\* the destructor body is done: the handle ceases to exist
DtorEnd ==
    /\ ~Idle /\ Top.fn = "dtor" /\ Top.pc = "end"
    /\ live' = [live EXCEPT ![Top.this] = FALSE]
    /\ stack' = Tail(stack)
    /\ UNCHANGED <<native_ptr_, tally, ret, hist, obs, given>>

\* ---- swap(unique_ptr &ptr) ----
SwapFrames(a, b) == <<Frame("swap", "load", a, b, nullptr)>>

SwapCall(a, b) ==
    /\ Idle /\ a \in Slots /\ b \in Slots /\ live[a] /\ live[b]
    /\ stack' = SwapFrames(a, b)
    /\ ret' = nullptr
    /\ UNCHANGED obs
    /\ Record("swap", a, b, nullptr)
    /\ UNCHANGED <<native_ptr_, live, tally, given>>

\* Variant: temp is loaded from the argument instead of this.
SwapLoadOther ==
    /\ ~Idle /\ Top.fn = "swap" /\ Top.pc = "load"
    /\ stack' = <<[Top EXCEPT !.temp = native_ptr_[Top.other],
                              !.pc = "store1"]>> \o Tail(stack)
    /\ UNCHANGED <<native_ptr_, live, tally, ret, hist, obs, given>>

\* auto temp = native_ptr_;
SwapLoad ==
    /\ ~Idle /\ Top.fn = "swap" /\ Top.pc = "load"
    /\ stack' = <<[Top EXCEPT !.temp = native_ptr_[Top.this],
                              !.pc = "store1"]>> \o Tail(stack)
    /\ UNCHANGED <<native_ptr_, live, tally, ret, hist, obs, given>>

\* native_ptr_ = ptr.native_ptr_;
SwapStore1 ==
    /\ ~Idle /\ Top.fn = "swap" /\ Top.pc = "store1"
    /\ native_ptr_' = [native_ptr_ EXCEPT ![Top.this] = native_ptr_[Top.other]]
    /\ stack' = <<[Top EXCEPT !.pc = "store2"]>> \o Tail(stack)
    /\ UNCHANGED <<live, tally, ret, hist, obs, given>>

\* Variant: ptr.native_ptr_ = native_ptr_; (temp is not used).
SwapStore2NoTemp ==
    /\ ~Idle /\ Top.fn = "swap" /\ Top.pc = "store2"
    /\ native_ptr_' = [native_ptr_ EXCEPT ![Top.other] = native_ptr_[Top.this]]
    /\ stack' = Tail(stack)
    /\ UNCHANGED <<live, tally, ret, hist, obs, given>>

\* ptr.native_ptr_ = temp;
SwapStore2 ==
    /\ ~Idle /\ Top.fn = "swap" /\ Top.pc = "store2"
    /\ native_ptr_' = [native_ptr_ EXCEPT ![Top.other] = Top.temp]
    /\ stack' = Tail(stack)
    /\ UNCHANGED <<live, tally, ret, hist, obs, given>>

\* Variant: an assignment taking its argument by reference that destroys
\* the target first and then takes the argument's address.
AssignFramesResetFirst(dst, src) ==
    DestroyFrames(dst) \o <<Frame("copy_ctor", "init", dst, src, nullptr)>>

\* ---- unique_ptr &operator=(unique_ptr ptr) { swap(ptr); return *this; } ----
\* The by-value parameter is constructed from the argument first.
AssignFrames(dst, src) ==
    CopyCtorFrames(Param, src) \o <<Frame("operator=", "swap", dst, Param, nullptr)>>

AssignCall(dst, src) ==
    /\ Idle /\ dst \in Slots /\ src \in Slots /\ live[dst] /\ live[src]
    /\ stack' = AssignFrames(dst, src)
    /\ ret' = nullptr
    /\ UNCHANGED obs
    /\ Record("operator=", dst, src, nullptr)
    /\ UNCHANGED <<native_ptr_, live, tally, given>>

\* Variant: the parameter is destructed first and swapped afterwards.
AssignSwapLate ==
    /\ ~Idle /\ Top.fn = "operator=" /\ Top.pc = "swap"
    /\ stack' = DtorFrames(Top.other) \o SwapFrames(Top.this, Top.other)
                   \o Tail(stack)
    /\ UNCHANGED <<native_ptr_, live, tally, ret, hist, obs, given>>

\* swap(ptr);
AssignSwap ==
    /\ ~Idle /\ Top.fn = "operator=" /\ Top.pc = "swap"
    /\ stack' = SwapFrames(Top.this, Top.other)
                   \o <<[Top EXCEPT !.pc = "return"]>> \o Tail(stack)
    /\ UNCHANGED <<native_ptr_, live, tally, ret, hist, obs, given>>

\* Variant: the parameter is never destructed.
AssignReturnLeak ==
    /\ ~Idle /\ Top.fn = "operator=" /\ Top.pc = "return"
    /\ stack' = Tail(stack)
    /\ UNCHANGED <<native_ptr_, live, tally, ret, hist, obs, given>>

\* return *this; the parameter is then destructed.
AssignReturn ==
    /\ ~Idle /\ Top.fn = "operator=" /\ Top.pc = "return"
    /\ stack' = DtorFrames(Top.other) \o Tail(stack)
    /\ UNCHANGED <<native_ptr_, live, tally, ret, hist, obs, given>>

\* ---- void reset() { destroy(); } ----
ResetCall(h) ==
    /\ Idle /\ h \in Slots /\ live[h]
    /\ stack' = DestroyFrames(h)
    /\ ret' = nullptr
    /\ UNCHANGED obs
    /\ Record("reset()", h, h, nullptr)
    /\ UNCHANGED <<native_ptr_, live, tally, given>>

\* ---- void reset(T *ptr) ----
\* the condition of the assertion at the head of reset(T *), which the
\* caller is to satisfy
ResetAssert(h, q) == IF nullptr = q THEN TRUE ELSE native_ptr_[h] # q

\* Variant: native_ptr_ = ptr; then destroy();
ResetPtrFramesAssignFirst(h, q) ==
    <<Frame("reset(T*)", "assign", h, h, q)>> \o DestroyFrames(h)

\* destroy(); then native_ptr_ = ptr;
ResetPtrFrames(h, q) ==
    DestroyFrames(h) \o <<Frame("reset(T*)", "assign", h, h, q)>>

ResetPtrCall(h, q) ==
    /\ Idle /\ h \in Slots /\ live[h] /\ Fresh(q)
    /\ ResetAssert(h, q)
    /\ stack' = ResetPtrFrames(h, q)
    /\ ret' = nullptr
    /\ UNCHANGED obs
    /\ Record("reset(T*)", h, h, q)
    /\ given' = given \cup ({q} \ {nullptr})
    /\ UNCHANGED <<native_ptr_, live, tally>>

\* native_ptr_ = ptr;
ResetPtrAssign ==
    /\ ~Idle /\ Top.fn = "reset(T*)" /\ Top.pc = "assign"
    /\ native_ptr_' = [native_ptr_ EXCEPT ![Top.this] = Top.ptr]
    /\ stack' = Tail(stack)
    /\ UNCHANGED <<live, tally, ret, hist, obs, given>>

\* ---- T *release() ----
ReleaseCall(h) ==
    /\ Idle /\ h \in Slots /\ live[h]
    /\ stack' = <<Frame("release", "load", h, h, nullptr)>>
    /\ ret' = nullptr
    /\ UNCHANGED obs
    /\ Record("release", h, h, nullptr)
    /\ UNCHANGED <<native_ptr_, live, tally, given>>

\* T *temp = native_ptr_;
ReleaseLoad ==
    /\ ~Idle /\ Top.fn = "release" /\ Top.pc = "load"
    /\ stack' = <<[Top EXCEPT !.temp = native_ptr_[Top.this],
                              !.pc = "null"]>> \o Tail(stack)
    /\ UNCHANGED <<native_ptr_, live, tally, ret, hist, obs, given>>

\* Variant: release() does not clear the field.
ReleaseKeepsPtr ==
    /\ ~Idle /\ Top.fn = "release" /\ Top.pc = "null"
    /\ stack' = <<[Top EXCEPT !.pc = "return"]>> \o Tail(stack)
    /\ UNCHANGED <<native_ptr_, live, tally, ret, hist, obs, given>>

\* native_ptr_ = nullptr;
ReleaseNull ==
    /\ ~Idle /\ Top.fn = "release" /\ Top.pc = "null"
    /\ native_ptr_' = [native_ptr_ EXCEPT ![Top.this] = nullptr]
    /\ stack' = <<[Top EXCEPT !.pc = "return"]>> \o Tail(stack)
    /\ UNCHANGED <<live, tally, ret, hist, obs, given>>

\* return temp;
ReleaseReturn ==
    /\ ~Idle /\ Top.fn = "release" /\ Top.pc = "return"
    /\ ret' = Top.temp
    /\ given' = given \ {Top.temp}
    /\ stack' = Tail(stack)
    /\ UNCHANGED <<native_ptr_, live, tally, hist, obs>>

\* ---- observers ----
\* The destructor of an object is running inside `delete`: the only point
\* at which code of the caller runs during a member function.
\* Variant: code of the caller also runs inside the transfer constructor,
\* after the member initialiser.
InObjectDtorOrCtor ==
    IF Idle THEN FALSE
    ELSE \/ Top.fn = "destroy" /\ Top.pc = "deleting"
         \/ Top.fn = "copy_ctor" /\ Top.pc = "clear"

InObjectDtor ==
    IF Idle THEN FALSE ELSE Top.fn = "destroy" /\ Top.pc = "deleting"

\* An observer evaluates its return expression to val; it is logged with
\* the state it was called in.
Observe(op, l, r, val) ==
    /\ obs' = [op |-> op, l |-> l, r |-> r, val |-> val, pre |-> Snap,
               stack |-> stack]
    /\ stack' = <<Frame(op, "return", l, r, nullptr)>> \o stack
    /\ hist' = IF Idle THEN <<>> ELSE hist
    /\ UNCHANGED <<native_ptr_, live, tally, ret, given>>

\* The observer returns to its caller.
ObserverReturn ==
    /\ ~Idle /\ obs.op # "none" /\ Top.fn = obs.op /\ Top.pc = "return"
    /\ stack' = Tail(stack)
    /\ obs' = NoObs
    /\ UNCHANGED <<native_ptr_, live, tally, ret, hist, given>>

\* Variant: get() gives the address away like release().
GetCallReleases(h) ==
    /\ (IF Idle THEN TRUE ELSE InObjectDtor) /\ h \in Slots /\ live[h]
    /\ obs' = [op |-> "get", l |-> h, r |-> h, val |-> get(h), pre |-> Snap,
               stack |-> stack]
    /\ stack' = <<Frame("get", "return", h, h, nullptr)>> \o stack
    /\ hist' = IF Idle THEN <<>> ELSE hist
    /\ native_ptr_' = [native_ptr_ EXCEPT ![h] = nullptr]
    /\ UNCHANGED <<live, tally, ret, given>>

\* T *get() const, called by the user or from the destructor of an object
GetCall(h) ==
    /\ (IF Idle THEN TRUE ELSE InObjectDtor) /\ h \in Slots /\ live[h]
    /\ Observe("get", h, h, get(h))

\* explicit operator bool() const { return nullptr != native_ptr_; }
OperatorBool(h) == nullptr # native_ptr_[h]

BoolCall(h) ==
    /\ (IF Idle THEN TRUE ELSE InObjectDtor) /\ h \in Slots /\ live[h]
    /\ Observe("operator bool", h, h, OperatorBool(h))

\* ---- comparison operators ----
OpEq(l, r) == get(l) = get(r)
OpNe(l, r) == get(l) # get(r)
\* Variant: <= written as <.
OpLeStrict(l, r) == get(l) < get(r)
OpLe(l, r) == get(l) <= get(r)
OpLt(l, r) == get(l) < get(r)
OpGe(l, r) == get(l) >= get(r)
OpGt(l, r) == get(l) > get(r)

CanCompare(l, r) == Idle /\ l \in Slots /\ r \in Slots /\ live[l] /\ live[r]

EqCall(l, r) == CanCompare(l, r) /\ Observe("==", l, r, OpEq(l, r))
NeCall(l, r) == CanCompare(l, r) /\ Observe("!=", l, r, OpNe(l, r))
LeCall(l, r) == CanCompare(l, r) /\ Observe("<=", l, r, OpLe(l, r))
LtCall(l, r) == CanCompare(l, r) /\ Observe("<", l, r, OpLt(l, r))
GeCall(l, r) == CanCompare(l, r) /\ Observe(">=", l, r, OpGe(l, r))
GtCall(l, r) == CanCompare(l, r) /\ Observe(">", l, r, OpGt(l, r))

\* ---- operator*, operator-> on a handle that owns an object ----
\* The static_assert at their head is not evaluated at run time; the
\* result gives access to the object at native_ptr_.
StarCall(h) ==
    /\ Idle /\ h \in Slots /\ live[h] /\ native_ptr_[h] # nullptr
    /\ Observe("operator*", h, h, native_ptr_[h])

ArrowCall(h) ==
    /\ Idle /\ h \in Slots /\ live[h] /\ native_ptr_[h] # nullptr
    /\ Observe("operator->", h, h, native_ptr_[h])

Next ==
    \/ \E h \in Slots : DefaultCtor(h)
    \/ \E h \in Slots, p \in Ptrs : RawCtor(h, p)
    \/ \E b \in Slots, a \in Slots : CopyCtorCall(b, a)
    \/ CopyCtorInit
    \/ CopyCtorClear
    \/ DestroyDelete
    \/ DestroyDeleted
    \/ DestroyNull
    \/ \E h \in Slots : DtorCall(h)
    \/ DtorEnd
    \/ \E a \in Slots, b \in Slots : SwapCall(a, b)
    \/ SwapLoad
    \/ SwapStore1
    \/ SwapStore2
    \/ \E dst \in Slots, src \in Slots : AssignCall(dst, src)
    \/ AssignSwap
    \/ AssignReturn
    \/ \E h \in Slots : ResetCall(h)
    \/ \E h \in Slots, q \in Ptrs : ResetPtrCall(h, q)
    \/ ResetPtrAssign
    \/ \E h \in Slots : ReleaseCall(h)
    \/ ReleaseLoad
    \/ ReleaseNull
    \/ ReleaseReturn
    \/ \E h \in Slots : GetCall(h)
    \/ \E h \in Slots : BoolCall(h)
    \/ \E l \in Slots, r \in Slots : EqCall(l, r)
    \/ \E l \in Slots, r \in Slots : NeCall(l, r)
    \/ \E l \in Slots, r \in Slots : LeCall(l, r)
    \/ \E l \in Slots, r \in Slots : LtCall(l, r)
    \/ \E l \in Slots, r \in Slots : GeCall(l, r)
    \/ \E l \in Slots, r \in Slots : GtCall(l, r)
    \/ \E h \in Slots : StarCall(h)
    \/ \E h \in Slots : ArrowCall(h)
    \/ ObserverReturn

Spec == Init /\ [][Next]_vars

\* ---- calls that break the documented preconditions ----
\* The conditions at lines 64, 102 and 110 are written as static_assert:
\* nothing evaluates them at run time, so the bodies run unchecked.

\* The process is terminated: no function runs any more.
Abort(h) == stack' = <<Frame("abort", "abort", h, h, nullptr)>>

\* operator-> on an empty handle: return native_ptr_;
ArrowCallEmpty(h) ==
    /\ Idle /\ h \in Slots /\ live[h] /\ native_ptr_[h] = nullptr
    /\ Observe("operator->", h, h, native_ptr_[h])

\* operator* on an empty handle: return *native_ptr_; dereferences a null
\* pointer, which is undefined: the process traps, or the caller gets a
\* reference to whatever address the build produces.
StarCallEmpty(h) ==
    /\ Idle /\ h \in Slots /\ live[h] /\ native_ptr_[h] = nullptr
    /\ \/ /\ Abort(h)
          /\ UNCHANGED <<native_ptr_, live, tally, ret, hist, obs, given>>
       \/ \E r \in Ptrs : Observe("operator*", h, h, r)

\* reset(ptr) with ptr the address the handle already holds
ResetPtrAlias(h) ==
    /\ Idle /\ h \in Slots /\ live[h] /\ native_ptr_[h] # nullptr
    /\ stack' = ResetPtrFrames(h, native_ptr_[h])
    /\ ret' = nullptr
    /\ Record("reset(T*)", h, h, native_ptr_[h])
    /\ UNCHANGED <<native_ptr_, live, tally, obs, given>>

\* delete of an object that is already destroyed is undefined: besides
\* running the destructor once more (DestroyDelete) the process may trap.
DoubleDeleteTrap ==
    /\ ~Idle /\ Top.fn = "destroy" /\ Top.pc = "delete"
    /\ native_ptr_[Top.this] # nullptr
    /\ tally[native_ptr_[Top.this]] > 0
    /\ Abort(Top.this)
    /\ UNCHANGED <<native_ptr_, live, tally, ret, hist, obs, given>>

NextMisuse ==
    \/ Next
    \/ \E h \in Slots : ArrowCallEmpty(h)
    \/ \E h \in Slots : StarCallEmpty(h)
    \/ \E h \in Slots : ResetPtrAlias(h)
    \/ DoubleDeleteTrap

SpecMisuse == Init /\ [][NextMisuse]_vars

TypeOK ==
    /\ native_ptr_ \in [Handles -> Ptrs]
    /\ live \in [Handles -> BOOLEAN]
    /\ tally \in [Addrs -> 0..MaxTally]
    /\ ret \in Ptrs
    /\ Len(hist) <= 2
    /\ given \subseteq Addrs

\* ---- properties ----
\* The newest logged call is `op` / the two newest are `op2` then `op1`.
LastIs(op) == Len(hist) >= 1 /\ hist[1].op = op
LastTwoAre(op2, op1) ==
    Len(hist) = 2 /\ hist[2].op = op2 /\ hist[1].op = op1
\* The address handle h held when the i-th newest call was made.
HeldAt(i, h) == hist[i].pre.native_ptr_[h]
\* t with the object at p (if any) destroyed once more.
OnceMore(t, p) ==
    [a \in Addrs |-> IF p # nullptr /\ a = p THEN t[a] + 1 ELSE t[a]]

\* C1: whatever handle operations have run, started or completed, with the
\* raw addresses passed in alive and unowned, no object has been destroyed
\* more than once.
C1_NoDoubleDestroy == \A a \in Addrs : tally[a] <= 1

\* C1 witness: an assignment destroyed the object its target owned and the
\* target was then destructed with the object it took over; both objects
\* have been destroyed.
C1_Witness ==
    /\ Idle /\ LastTwoAre("operator=", "dtor")
    /\ hist[2].this # hist[2].other
    /\ HeldAt(2, hist[2].this) # nullptr
    /\ HeldAt(1, hist[1].this) # nullptr
    /\ \A a \in Addrs : tally[a] = 1

\* C2: between operations no two distinct live handles hold the same
\* non-empty address; after construction from another handle the source
\* and the new handle are not both owners.
C2_ExclusiveOwnership ==
    Idle =>
      /\ \A h1 \in Handles, h2 \in Handles :
            (h1 # h2 /\ live[h1] /\ live[h2] /\ get(h1) # nullptr)
               => get(h1) # get(h2)
      /\ LastIs("copy_ctor") =>
            (get(hist[1].this) = nullptr \/ get(hist[1].other) # get(hist[1].this))

\* C2 witness: a handle was constructed from a non-empty one and the two,
\* both live, were then swapped: the source owns the object again.
C2_Witness ==
    /\ Idle /\ LastTwoAre("copy_ctor", "swap")
    /\ hist[1].this # hist[1].other
    /\ {hist[1].this, hist[1].other} = {hist[2].this, hist[2].other}
    /\ HeldAt(2, hist[2].other) # nullptr
    /\ get(hist[2].other) = HeldAt(2, hist[2].other)
    /\ live[hist[2].other] /\ live[hist[2].this]

\* C3: destructing a handle that holds p destroys the object at p exactly
\* once, nothing else, and the object is destroyed by the time the handle
\* is gone.
C3_DtorDestroysOnceBeforeGone ==
    LastIs("dtor") =>
      LET h == hist[1].this
          p == HeldAt(1, h)
          t == hist[1].pre.tally
      IN  /\ tally \in {t, OnceMore(t, p)}
          /\ (p # nullptr /\ ~live[h]) => (tally[p] = t[p] + 1 /\ tally[p] = 1)
          /\ Idle => (~live[h] /\ tally = OnceMore(t, p))

\* C3 witness: a handle that held an object is gone and the object is
\* destroyed.
C3_Witness ==
    /\ Idle /\ LastIs("dtor")
    /\ HeldAt(1, hist[1].this) # nullptr
    /\ ~live[hist[1].this]
    /\ tally[HeldAt(1, hist[1].this)] = 1

\* C4: b constructed from a (holding p) holds p and a is empty, nothing is
\* destroyed; destructing a afterwards destroys nothing; destructing b
\* afterwards, directly or after the emptied a, leaves the tally of p at 1.
C4_TransferConstruct ==
    /\ (Idle /\ LastIs("copy_ctor")) =>
          LET b == hist[1].this
              a == hist[1].other
          IN  /\ get(b) = HeldAt(1, a)
              /\ get(a) = nullptr
              /\ live[a] /\ live[b]
              /\ tally = hist[1].pre.tally
    /\ (Idle /\ LastTwoAre("copy_ctor", "dtor")) =>
          LET b == hist[2].this
              a == hist[2].other
              p == HeldAt(2, a)
          IN  /\ hist[1].this = a =>
                    (tally = hist[2].pre.tally /\ live[b] /\ get(b) = p)
              /\ (hist[1].this = b /\ p # nullptr) =>
                    (tally[p] = 1 /\ tally = OnceMore(hist[2].pre.tally, p))
    /\ (Idle /\ LastTwoAre("dtor", "dtor") /\ HeldAt(2, hist[2].this) = nullptr) =>
          LET p == HeldAt(1, hist[1].this)
          IN  /\ tally = OnceMore(hist[2].pre.tally, p)
              /\ p # nullptr => tally[p] = 1

\* C4 witness: b was constructed from a non-empty a and then destructed;
\* the object is destroyed once and a is still there, empty.
C4_Witness ==
    /\ Idle /\ LastTwoAre("copy_ctor", "dtor")
    /\ hist[1].this = hist[2].this
    /\ HeldAt(2, hist[2].other) # nullptr
    /\ tally[HeldAt(2, hist[2].other)] = 1
    /\ live[hist[2].other] /\ get(hist[2].other) = nullptr

\* C5: a = a destroys nothing at any point and ends with every handle as
\* it was.
C5_SelfAssign ==
    (LastIs("operator=") /\ hist[1].this = hist[1].other) =>
       /\ tally = hist[1].pre.tally
       /\ Idle => (native_ptr_ = hist[1].pre.native_ptr_ /\ live = hist[1].pre.live)

\* C5 witness: a non-empty handle has been assigned to itself.
C5_Witness ==
    /\ Idle /\ LastIs("operator=") /\ hist[1].this = hist[1].other
    /\ get(hist[1].this) # nullptr

\* C6: for distinct dst (holding q) and src (holding p), dst = src ends with
\* dst holding p, src empty, the object at q (if any) destroyed exactly once
\* and nothing else destroyed; destructing dst and then constructing it
\* from src ends in that same state.
C6_AssignIsDestroyThenTransfer ==
    /\ (Idle /\ LastIs("operator=") /\ hist[1].this # hist[1].other) =>
          LET dst == hist[1].this
              src == hist[1].other
              q == HeldAt(1, dst)
          IN  /\ native_ptr_ = [hist[1].pre.native_ptr_ EXCEPT
                                  ![dst] = HeldAt(1, src), ![src] = nullptr]
              /\ live = hist[1].pre.live
              /\ tally = OnceMore(hist[1].pre.tally, q)
              /\ q # nullptr => tally[q] = 1
    /\ (Idle /\ LastTwoAre("dtor", "copy_ctor") /\ hist[1].this = hist[2].this) =>
          LET dst == hist[1].this
              src == hist[1].other
              q == HeldAt(2, dst)
          IN  /\ native_ptr_ = [hist[2].pre.native_ptr_ EXCEPT
                                  ![dst] = HeldAt(2, src), ![src] = nullptr]
              /\ live = hist[2].pre.live
              /\ tally = OnceMore(hist[2].pre.tally, q)
              /\ q # nullptr => tally[q] = 1

\* C6 witness: both handles owned an object when dst = src was made; dst
\* now owns the object src owned and its own former object is destroyed.
C6_Witness ==
    /\ Idle /\ LastIs("operator=") /\ hist[1].this # hist[1].other
    /\ HeldAt(1, hist[1].this) # nullptr
    /\ HeldAt(1, hist[1].other) # nullptr
    /\ get(hist[1].this) = HeldAt(1, hist[1].other)
    /\ tally[HeldAt(1, hist[1].this)] = 1
    /\ tally[HeldAt(1, hist[1].other)] = 0

\* C7: release() returns the address the handle held, empties the handle
\* and destroys nothing at any point; a reset() or destruction of the
\* handle right after it destroys nothing either.
C7_Release ==
    /\ LastIs("release") =>
          /\ tally = hist[1].pre.tally
          /\ Idle =>
                /\ ret = HeldAt(1, hist[1].this)
                /\ native_ptr_ = [hist[1].pre.native_ptr_ EXCEPT
                                    ![hist[1].this] = nullptr]
                /\ live = hist[1].pre.live
    /\ (Len(hist) = 2 /\ hist[2].op = "release"
            /\ hist[1].op \in {"dtor", "reset()"}
            /\ hist[1].this = hist[2].this) =>
          tally = hist[2].pre.tally

\* C7 witness: a handle that owned an object was released and then
\* destructed; the object is still alive.
C7_Witness ==
    /\ Idle /\ LastTwoAre("release", "dtor")
    /\ hist[1].this = hist[2].this
    /\ HeldAt(2, hist[2].this) # nullptr
    /\ tally[HeldAt(2, hist[2].this)] = 0
    /\ ~live[hist[1].this]

\* C8: reset() leaves the handle empty with the object it owned (if any)
\* destroyed exactly once; reset() or destruction of an empty handle
\* destroys nothing; a second reset() changes nothing.
C8_ResetIdempotent ==
    /\ (Idle /\ LastIs("reset()")) =>
          LET h == hist[1].this
              p == HeldAt(1, h)
          IN  /\ native_ptr_ = [hist[1].pre.native_ptr_ EXCEPT ![h] = nullptr]
              /\ live = hist[1].pre.live
              /\ tally = OnceMore(hist[1].pre.tally, p)
              /\ p # nullptr => tally[p] = 1
    /\ (Len(hist) >= 1 /\ hist[1].op \in {"reset()", "dtor"}
            /\ HeldAt(1, hist[1].this) = nullptr) =>
          /\ tally = hist[1].pre.tally
          /\ native_ptr_ = hist[1].pre.native_ptr_
    /\ (Idle /\ LastTwoAre("reset()", "reset()") /\ hist[1].this = hist[2].this) =>
          Snap = hist[1].pre

\* C8 witness: a handle that owned an object has been reset twice.
C8_Witness ==
    /\ Idle /\ LastTwoAre("reset()", "reset()")
    /\ hist[1].this = hist[2].this
    /\ HeldAt(2, hist[2].this) # nullptr
    /\ tally[HeldAt(2, hist[2].this)] = 1

\* C9: reset(q) on a handle holding p, p and q different and non-empty,
\* destroys p exactly once and nothing else, ends with the handle holding
\* q, and the handle does not hold q before p is destroyed.
C9_ResetPtr ==
    (LastIs("reset(T*)") /\ hist[1].ptr # nullptr
        /\ HeldAt(1, hist[1].this) # nullptr
        /\ HeldAt(1, hist[1].this) # hist[1].ptr) =>
       LET h == hist[1].this
           p == HeldAt(1, h)
           q == hist[1].ptr
           t == hist[1].pre.tally
       IN  /\ tally \in {t, OnceMore(t, p)}
           /\ get(h) = q => (tally[p] = t[p] + 1 /\ tally[p] = 1)
           /\ tally[q] = 0
           /\ Idle => (get(h) = q /\ tally = OnceMore(t, p))

\* C9 witness: reset(q) on a handle owning another object has completed.
C9_Witness ==
    /\ Idle /\ LastIs("reset(T*)") /\ hist[1].ptr # nullptr
    /\ HeldAt(1, hist[1].this) # nullptr
    /\ get(hist[1].this) = hist[1].ptr
    /\ tally[HeldAt(1, hist[1].this)] = 1

\* C10: swap exchanges the two addresses and destroys or constructs
\* nothing at any point; a second swap of the same pair restores both
\* addresses.
C10_SwapInvolution ==
    /\ LastIs("swap") =>
          /\ tally = hist[1].pre.tally
          /\ live = hist[1].pre.live
          /\ Idle =>
                LET a == hist[1].this
                    b == hist[1].other
                IN  /\ get(a) = HeldAt(1, b)
                    /\ get(b) = HeldAt(1, a)
                    /\ \A h \in Handles \ {a, b} : get(h) = HeldAt(1, h)
    /\ (Idle /\ LastTwoAre("swap", "swap")
            /\ {hist[1].this, hist[1].other} = {hist[2].this, hist[2].other}) =>
          Snap = hist[2].pre

\* C10 witness: an empty and a non-empty handle have been swapped twice.
C10_Witness ==
    /\ Idle /\ LastTwoAre("swap", "swap")
    /\ hist[1].this # hist[1].other
    /\ {hist[1].this, hist[1].other} = {hist[2].this, hist[2].other}
    /\ HeldAt(2, hist[2].this) # HeldAt(2, hist[2].other)
    /\ HeldAt(1, hist[1].this) = HeldAt(2, hist[2].other)
    /\ \E h \in {hist[1].this, hist[1].other} : get(h) = nullptr

\* The addresses the two operands of the returning observer held when it
\* was called.
ObsL == obs.pre.native_ptr_[obs.l]
ObsR == obs.pre.native_ptr_[obs.r]

\* C11: each of the six comparison operators returns the comparison of the
\* two handles' addresses: == is true iff they are equal (so two empty
\* handles are equal and an empty handle differs from a non-empty one), !=
\* is its negation, and <, <=, >, >= are the order of the addresses.
C11_ComparisonsByAddress ==
    /\ obs.op = "==" => (obs.val <=> (ObsL = ObsR))
    /\ obs.op = "!=" => (obs.val <=> ~(ObsL = ObsR))
    /\ obs.op = "<" => (obs.val <=> (ObsL < ObsR))
    /\ obs.op = "<=" => (obs.val <=> (ObsL < ObsR \/ ObsL = ObsR))
    /\ obs.op = ">" => (obs.val <=> (ObsR < ObsL))
    /\ obs.op = ">=" => (obs.val <=> (ObsR < ObsL \/ ObsL = ObsR))
    /\ (obs.op = "==" /\ ObsL = nullptr /\ ObsR = nullptr) => obs.val
    /\ (obs.op = "==" /\ ObsL = nullptr /\ ObsR # nullptr) => ~obs.val

\* C11 witness: two distinct handles owning different objects are
\* compared with <= and the result is true.
C11_Witness ==
    /\ obs.op = "<=" /\ obs.l # obs.r
    /\ ObsL # nullptr /\ ObsR # nullptr /\ ObsL # ObsR
    /\ obs.val = TRUE

\* C12: between operations every object handed to a handle and not taken
\* back with release() is either owned by a live handle and alive, or
\* destroyed exactly once, and no other object is destroyed; so once no
\* handle is live each such object has been destroyed exactly once; and
\* destructing two handles that own two objects raises the tally by two.
C12_NoLeakOnDrop ==
    /\ Idle =>
          \A a \in Addrs :
             IF a \in given
             THEN (Held(a) /\ tally[a] = 0) \/ (~Held(a) /\ tally[a] = 1)
             ELSE tally[a] = 0 /\ ~Held(a)
    /\ (Idle /\ \A h \in Handles : ~live[h]) =>
          \A a \in Addrs : tally[a] = IF a \in given THEN 1 ELSE 0
    /\ (Idle /\ LastTwoAre("dtor", "dtor")
            /\ HeldAt(2, hist[2].this) # nullptr
            /\ HeldAt(1, hist[1].this) # nullptr) =>
          tally = OnceMore(OnceMore(hist[2].pre.tally, HeldAt(2, hist[2].this)),
                           HeldAt(1, hist[1].this))

\* C12 witness: two handles owning two objects have been destructed one
\* after the other, no handle is left and both objects are destroyed.
C12_Witness ==
    /\ Idle /\ LastTwoAre("dtor", "dtor")
    /\ \A h \in Handles : ~live[h]
    /\ HeldAt(2, hist[2].this) # nullptr
    /\ HeldAt(1, hist[1].this) # nullptr
    /\ HeldAt(1, hist[1].this) # HeldAt(2, hist[2].this)
    /\ tally[HeldAt(1, hist[1].this)] = 1
    /\ tally[HeldAt(2, hist[2].this)] = 1

\* C13: a dereference (operator* or operator->) of an empty handle ends in
\* a fatal assertion: it never returns a result to its caller.
C13_EmptyDerefIsFatal ==
    ~(obs.op \in {"operator*", "operator->"} /\ ObsL = nullptr)

\* C14: reset(p) on a handle that holds the non-empty address p is stopped
\* by the assertion before anything is destroyed: the object at p is not
\* destroyed by the call and the handle is never left holding an object
\* the call destroyed.
C14_AliasResetIsChecked ==
    (LastIs("reset(T*)") /\ hist[1].ptr # nullptr
        /\ hist[1].ptr = HeldAt(1, hist[1].this)) =>
       /\ tally = hist[1].pre.tally
       /\ ~(Idle /\ get(hist[1].this) = hist[1].ptr
                 /\ tally[hist[1].ptr] > hist[1].pre.tally[hist[1].ptr])

\* C15: when get(), operator bool or a comparison operator returns, every
\* handle's address and lifetime and every object's tally are what they
\* were at the call; get() returns the address the handle holds and
\* operator bool is true iff that address is not empty.
C15_ObserversChangeNothing ==
    obs.op \in {"get", "operator bool", "==", "!=", "<=", "<", ">=", ">"} =>
       /\ Snap = obs.pre
       /\ obs.op = "get" => (obs.val = ObsL /\ obs.val = get(obs.l))
       /\ obs.op = "operator bool" => (obs.val <=> (get(obs.l) # nullptr))

\* C15 witness: get() on a handle that owns an object returns its address.
C15_Witness ==
    /\ obs.op = "get" /\ obs.stack = <<>>
    /\ obs.val # nullptr /\ obs.val = get(obs.l)
    /\ live[obs.l] /\ tally[obs.val] = 0

\* C16: in dst = src (dst holding q, src holding p, two handles) the
\* parameter is constructed first, taking p and emptying src, with dst
\* still holding q; then dst and the parameter are swapped; only the
\* parameter's destructor destroys, and whenever the object at q is being
\* or has been destroyed dst holds p and src is empty.
C16_AssignOrder ==
    (LastIs("operator=") /\ hist[1].this # hist[1].other) =>
       LET dst == hist[1].this
           src == hist[1].other
           p == HeldAt(1, src)
           q == HeldAt(1, dst)
           t == hist[1].pre.tally
       IN  /\ (~Idle /\ Top.fn = "copy_ctor") =>
                 (~live[Param] /\ get(dst) = q /\ tally = t)
           /\ (~Idle /\ Top.fn \in {"operator=", "swap"}) =>
                 (live[Param] /\ get(src) = nullptr /\ tally = t)
           /\ (~Idle /\ Top.fn = "operator=" /\ Top.pc = "swap") =>
                 (get(Param) = p /\ get(dst) = q)
           /\ (~Idle /\ Top.fn = "operator=" /\ Top.pc = "return") =>
                 (get(Param) = q /\ get(dst) = p)
           /\ (~Idle /\ Top.fn \in {"destroy", "dtor"}) =>
                 (Top.this = Param /\ get(dst) = p /\ get(src) = nullptr)
           /\ (~Idle /\ Top.fn = "destroy" /\ Top.pc \in {"delete", "deleting"}) =>
                 (get(Param) = q /\ tally = t)
           /\ tally # t =>
                 /\ q # nullptr /\ tally = OnceMore(t, q)
                 /\ get(dst) = p /\ get(src) = nullptr
                 /\ (Idle \/ Top.this = Param)

\* C16 witness: the parameter's destructor has just destroyed the object
\* dst owned, and dst already owns the object src owned.
C16_Witness ==
    /\ LastIs("operator=") /\ hist[1].this # hist[1].other
    /\ ~Idle /\ Top.fn = "destroy" /\ Top.pc = "null" /\ Top.this = Param
    /\ HeldAt(1, hist[1].this) # nullptr
    /\ tally[HeldAt(1, hist[1].this)] = 1
    /\ HeldAt(1, hist[1].other) # nullptr
    /\ get(hist[1].this) = HeldAt(1, hist[1].other)

\* Some function of the interface can be called in the current state.
CanCall ==
    \/ \E h \in Slots : ENABLED DefaultCtor(h) \/ ENABLED DtorCall(h)
                          \/ ENABLED ResetCall(h) \/ ENABLED ReleaseCall(h)
                          \/ ENABLED GetCall(h) \/ ENABLED BoolCall(h)
                          \/ ENABLED StarCall(h) \/ ENABLED ArrowCall(h)
    \/ \E h \in Slots, q \in Ptrs : ENABLED RawCtor(h, q) \/ ENABLED ResetPtrCall(h, q)
    \/ \E a \in Slots, b \in Slots :
          \/ ENABLED CopyCtorCall(b, a) \/ ENABLED SwapCall(a, b)
          \/ ENABLED AssignCall(a, b)
          \/ ENABLED EqCall(a, b) \/ ENABLED NeCall(a, b) \/ ENABLED LeCall(a, b)
          \/ ENABLED LtCall(a, b) \/ ENABLED GeCall(a, b) \/ ENABLED GtCall(a, b)

\* No two handles hold the same non-empty address in the state s.
NoSharedAddress(s) ==
    \A h1 \in Handles, h2 \in Handles :
       (h1 # h2 /\ s.native_ptr_[h1] # nullptr)
          => s.native_ptr_[h1] # s.native_ptr_[h2]

\* C17: inside the transfer constructor the new handle holds the source's
\* address while the source still holds it, but no function can be called
\* in that state, and no call or observer was ever made in a state where
\* two handles held the same non-empty address.
C17_TransferIsAtomic ==
    /\ (~Idle /\ Top.fn = "copy_ctor" /\ Top.pc = "clear") =>
          /\ get(Top.this) = get(Top.other)
          /\ ~CanCall
    /\ \A i \in 1..Len(hist) : NoSharedAddress(hist[i].pre)
    /\ obs.op # "none" => NoSharedAddress(obs.pre)

\* C17 witness: a handle is being constructed from a non-empty handle; its
\* address is written and the source is not yet cleared.
C17_Witness ==
    /\ LastIs("copy_ctor")
    /\ ~Idle /\ Top.fn = "copy_ctor" /\ Top.pc = "clear"
    /\ get(Top.this) # nullptr /\ get(Top.this) = get(Top.other)
    /\ Top.this # Top.other /\ live[Top.other]

\* The live handle h holds the address of an object that was destroyed.
Dangling(h) ==
    /\ live[h] /\ get(h) # nullptr
    /\ tally[get(h)] > 0

\* C18: no dangling handle.  In every state in which a function of the
\* interface can be called (between calls, and inside an object's
\* destructor) no live handle holds the address of a destroyed object; the
\* only state with such a handle at all is the one inside destroy() of
\* that handle, between `delete native_ptr_` and `native_ptr_ = nullptr`.
C18_NoDanglingHandle ==
    /\ (Idle \/ InObjectDtor) => \A h \in Handles : ~Dangling(h)
    /\ \A h \in Handles :
          Dangling(h) =>
             ~Idle /\ Top.fn = "destroy" /\ Top.pc = "null" /\ Top.this = h

\* C18 witness: reset(q) has destroyed the object the handle held and the
\* handle now holds q, which is alive.
C18_Witness ==
    /\ Idle /\ LastIs("reset(T*)")
    /\ hist[1].ptr # nullptr /\ HeldAt(1, hist[1].this) # nullptr
    /\ tally[HeldAt(1, hist[1].this)] = 1
    /\ live[hist[1].this] /\ get(hist[1].this) = hist[1].ptr
    /\ tally[hist[1].ptr] = 0

\* C19: destroy() clears the field only after the object's destruction has
\* completed.  While an object is being destroyed by reset(), reset(q) or
\* the destructor of a handle, the handle holds the object's address and
\* the object is not yet destroyed; get() and operator bool called on the
\* handle from the object's destructor return that address and true; and
\* when the field is about to be cleared the object has been destroyed.
C19_ClearedAfterDestruction ==
    /\ \A i \in 1..Len(stack) :
          (stack[i].fn = "destroy" /\ stack[i].pc = "deleting") =>
             /\ stack[i].ptr # nullptr
             /\ get(stack[i].this) = stack[i].ptr
             /\ OperatorBool(stack[i].this)
             /\ tally[stack[i].ptr] = 0
    /\ (~Idle /\ Top.fn = "destroy" /\ Top.pc = "null"
          /\ Top.ptr # nullptr) =>
             get(Top.this) = Top.ptr /\ tally[Top.ptr] = 1
    /\ (obs.op \in {"get", "operator bool"} /\ obs.stack # <<>>) =>
          LET d == Head(obs.stack)
          IN  obs.l = d.this =>
                 /\ obs.op = "get" => obs.val = d.ptr
                 /\ obs.op = "operator bool" => obs.val = TRUE

\* C19 witness: get() called on a handle from the destructor of the
\* object that the handle's reset(q) is destroying returns the address of
\* that object.
C19_Witness ==
    /\ LastIs("reset(T*)")
    /\ obs.op = "get" /\ obs.stack # <<>>
    /\ Head(obs.stack).fn = "destroy" /\ Head(obs.stack).pc = "deleting"
    /\ obs.l = Head(obs.stack).this /\ obs.l = hist[1].this
    /\ obs.val # nullptr /\ obs.val = HeldAt(1, obs.l)
    /\ tally[obs.val] = 0

\* The state in which the handles of state s are once b has been
\* transfer-constructed from a: b holds a's address, a is empty, no object
\* is destroyed.
Transferred(s, b, a) ==
    [native_ptr_ |-> [h \in Handles |->
                         IF h = a THEN nullptr
                         ELSE IF h = b THEN s.native_ptr_[a]
                         ELSE s.native_ptr_[h]],
     live |-> [s.live EXCEPT ![b] = TRUE],
     tally |-> s.tally]

\* C20: release/rebind round trip.  Constructing b from the address
\* a.release() returned ends in the state that transfer-constructing b
\* from a ends in, both started where a held p; and destroying the b so
\* constructed destroys the object at p exactly once.
C20_ReleaseRebind ==
    /\ (Idle /\ LastIs("copy_ctor")) =>
          Snap = Transferred(hist[1].pre, hist[1].this, hist[1].other)
    /\ (Idle /\ LastIs("release")) => ret = HeldAt(1, hist[1].this)
    /\ (Idle /\ LastTwoAre("release", "unique_ptr(T*)")
          /\ hist[1].ptr = HeldAt(2, hist[2].this)) =>
          Snap = Transferred(hist[2].pre, hist[1].this, hist[2].this)
    /\ (Idle /\ LastTwoAre("unique_ptr(T*)", "dtor")
          /\ hist[1].this = hist[2].this /\ hist[2].ptr # nullptr) =>
          /\ hist[2].pre.tally[hist[2].ptr] = 0
          /\ tally = OnceMore(hist[2].pre.tally, hist[2].ptr)
          /\ tally[hist[2].ptr] = 1

\* C20 witness: a held an object, released it, and b was constructed
\* from the address returned; b holds the object and a is empty.
C20_Witness ==
    /\ Idle /\ LastTwoAre("release", "unique_ptr(T*)")
    /\ HeldAt(2, hist[2].this) # nullptr
    /\ hist[1].ptr = HeldAt(2, hist[2].this)
    /\ get(hist[1].this) = hist[1].ptr
    /\ live[hist[2].this] /\ get(hist[2].this) = nullptr
    /\ tally[hist[1].ptr] = 0
====
